---- MODULE Spec2Model ----
(***************************************************************************)
(* Model of TradeMonitoringService (the monitoring core of the trading     *)
(* bot): the in-memory map monitoredTrades, the two interval timers, the   *)
(* per-trade monitoring step and the exit path executeTradeExit, together  *)
(* with the collaborators it awaits (price service, trade executor,        *)
(* database).  Every `await` of the source is a point where the task is    *)
(* suspended and other tasks run; the code between two awaits is one       *)
(* atomic action.                                                          *)
(*                                                                         *)
(* Prices are integers.  The source multiplies a price by 0.99 or 1.01 to  *)
(* obtain a trailing stop; the field trailingStopPrice holds that value    *)
(* times Scale, so the comparison  price <= trailingStopPrice  of the      *)
(* source is  price * Scale <= trailingStopPrice  here.  Floating-point    *)
(* rounding is not modelled.                                               *)
(***************************************************************************)
EXTENDS Integers, Sequences, FiniteSets, Bags, TLC

(***************************************************************************)
(* Bounds of the model.                                                    *)
(***************************************************************************)
\* events of the environment in one behaviour: operations started (start,
\* stop, timer firings, manual exits, registrations, direct store inserts),
\* failures of a collaborator (price service, executor, database),
\* registration requests that violate the data invariants and clock ticks
\* of the engine specification
MaxOps == 3
\* the clock runs 0..MaxNow
MaxNow == 2
\* per-trade tasks (monitorSingleTrade, executeTradeExit) in flight at once
MaxTasks == 2
\* successful price checks applied to the trade of the sequential specification
MaxChecks == 3

(***************************************************************************)
(* Program constants.                                                      *)
(***************************************************************************)
\* currentPrice * 0.99 and currentPrice * 1.01, in hundredths
Scale == 100
TrailBelow == 99
TrailAbove == 101

Null == 0

Sides == {"buy", "sell"}
ExitTypes == {"TP1", "TP2", "STOP_LOSS", "MAX_EXIT_TIME", "TRAILING_STOP"}

(***************************************************************************)
(* MonitoredTrade as the three constructors of the source build it from a  *)
(* stored record: the counters start at zero, the extremum at the entry    *)
(* price and the trailing stop 1% below the entry price whatever the side, *)
(* with the trailing stop enabled.  currentPrice and lastPriceCheck are    *)
(* absent (Null, -1) until the first successful price check.               *)
(***************************************************************************)
NewMonitoredTrade(id, data) ==
    [ id                     |-> id,
      tradeId                |-> id,
      safeAddress            |-> data.safeAddress,
      signalMessage          |-> data.signalMessage,
      entryPrice             |-> data.entryPrice,
      currentPrice           |-> Null,
      tp1                    |-> data.tp1,
      tp2                    |-> data.tp2,
      sl                     |-> data.sl,
      maxExitTime            |-> data.maxExitTime,
      entryAmount            |-> data.entryAmount,
      lastPriceCheck         |-> -1,
      priceCheckCount        |-> 0,
      highestPriceSinceEntry |-> data.entryPrice,
      trailingStopPrice      |-> data.entryPrice * TrailBelow,
      trailingStopEnabled    |-> TRUE ]

(***************************************************************************)
(* updateTrailingStopData: a new extremum moves the trailing stop.         *)
(***************************************************************************)
updateTrailingStopData_Overwrite(trade, currentPrice) ==
    IF ~trade.trailingStopEnabled THEN trade
    ELSE [trade EXCEPT !.highestPriceSinceEntry = currentPrice,
                       !.trailingStopPrice =
                           IF trade.signalMessage = "buy"
                           THEN currentPrice * TrailBelow
                           ELSE currentPrice * TrailAbove]

updateTrailingStopData(trade, currentPrice) ==
    IF ~trade.trailingStopEnabled THEN trade
    ELSE IF trade.signalMessage = "buy"
    THEN IF currentPrice > trade.highestPriceSinceEntry
         THEN [trade EXCEPT !.highestPriceSinceEntry = currentPrice,
                            !.trailingStopPrice = currentPrice * TrailBelow]
         ELSE trade
    ELSE IF trade.signalMessage = "sell"
    THEN IF currentPrice < trade.highestPriceSinceEntry
         THEN [trade EXCEPT !.highestPriceSinceEntry = currentPrice,
                            !.trailingStopPrice = currentPrice * TrailAbove]
         ELSE trade
    ELSE trade

(***************************************************************************)
(* checkExitConditions: the nested tests of the source, in their order.    *)
(* `now` is the clock the function reads itself.                           *)
(***************************************************************************)
Triggered(type, currentPrice) ==
    [type |-> type, currentPrice |-> currentPrice, triggered |-> TRUE]

NotTriggered(currentPrice) ==
    [type |-> "TP1", currentPrice |-> currentPrice, triggered |-> FALSE]

checkExitConditions_Always(trade, currentPrice, now) ==
    Triggered("TP1", currentPrice)

checkExitConditions_Tp1First(trade, currentPrice, now) ==
    IF now >= trade.maxExitTime THEN Triggered("MAX_EXIT_TIME", currentPrice)
    ELSE IF trade.signalMessage = "buy"
    THEN IF trade.trailingStopEnabled
            /\ currentPrice * Scale <= trade.trailingStopPrice
         THEN Triggered("TRAILING_STOP", currentPrice)
         ELSE IF currentPrice <= trade.sl
         THEN Triggered("STOP_LOSS", currentPrice)
         ELSE IF currentPrice >= trade.tp1
         THEN Triggered("TP1", currentPrice)
         ELSE IF currentPrice >= trade.tp2
         THEN Triggered("TP2", currentPrice)
         ELSE NotTriggered(currentPrice)
    ELSE IF trade.trailingStopEnabled
            /\ currentPrice * Scale >= trade.trailingStopPrice
         THEN Triggered("TRAILING_STOP", currentPrice)
         ELSE IF currentPrice >= trade.sl
         THEN Triggered("STOP_LOSS", currentPrice)
         ELSE IF currentPrice <= trade.tp1
         THEN Triggered("TP1", currentPrice)
         ELSE IF currentPrice <= trade.tp2
         THEN Triggered("TP2", currentPrice)
         ELSE NotTriggered(currentPrice)

checkExitConditions(trade, currentPrice, now) ==
    IF now >= trade.maxExitTime THEN Triggered("MAX_EXIT_TIME", currentPrice)
    ELSE IF trade.signalMessage = "buy"
    THEN IF trade.trailingStopEnabled
            /\ currentPrice * Scale <= trade.trailingStopPrice
         THEN Triggered("TRAILING_STOP", currentPrice)
         ELSE IF currentPrice <= trade.sl
         THEN Triggered("STOP_LOSS", currentPrice)
         ELSE IF currentPrice >= trade.tp2
         THEN Triggered("TP2", currentPrice)
         ELSE IF currentPrice >= trade.tp1
         THEN Triggered("TP1", currentPrice)
         ELSE NotTriggered(currentPrice)
    ELSE IF trade.signalMessage = "sell"
    THEN IF trade.trailingStopEnabled
            /\ currentPrice * Scale >= trade.trailingStopPrice
         THEN Triggered("TRAILING_STOP", currentPrice)
         ELSE IF currentPrice >= trade.sl
         THEN Triggered("STOP_LOSS", currentPrice)
         ELSE IF currentPrice <= trade.tp2
         THEN Triggered("TP2", currentPrice)
         ELSE IF currentPrice <= trade.tp1
         THEN Triggered("TP1", currentPrice)
         ELSE NotTriggered(currentPrice)
    ELSE NotTriggered(currentPrice)

(***************************************************************************)
(* The synchronous part of monitorSingleTrade after a price has arrived:   *)
(* the three field updates, then the trailing-stop update.  The exit       *)
(* conditions are evaluated on the trade this returns.                     *)
(***************************************************************************)
monitorUpdate_Overwrite(trade, currentPrice, now) ==
    updateTrailingStopData_Overwrite(
        [trade EXCEPT !.currentPrice = currentPrice,
                      !.lastPriceCheck = now,
                      !.priceCheckCount = @ + 1],
        currentPrice)

monitorUpdate(trade, currentPrice, now) ==
    updateTrailingStopData(
        [trade EXCEPT !.currentPrice = currentPrice,
                      !.lastPriceCheck = now,
                      !.priceCheckCount = @ + 1],
        currentPrice)

(***************************************************************************)
(* State.                                                                  *)
(*                                                                         *)
(* The engine: isRunning and the two timer handles (TRUE when not null),   *)
(* the number of interval timers that are live in the event loop, the map  *)
(* monitoredTrades (trade id -> reference to a MonitoredTrade object, Null *)
(* when absent) and the objects themselves (heap).  Tasks suspended at an  *)
(* await keep the reference they were given, as the source does.           *)
(*                                                                         *)
(* The collaborators: db, the stored record of every trade id; now, the    *)
(* clock.  execCalls, statusCalls and emitted count the calls of           *)
(* executeTrade, updateTradeStatus and emit.  addResult is how the         *)
(* addTradeToMonitoring call for the trade that gets (or would have got)   *)
(* the id ended: "none" when there was no such call, "error" when it       *)
(* threw, "ok" when it returned, "stopped" when it returned and stop() has *)
(* run since.  peerExecCalls counts the executeTrade calls of a second     *)
(* instance of the service that runs against the same database.            *)
(*                                                                         *)
(* What the calls gave back: startReturned is how the last start() that    *)
(* returned did so ("running": the early return, "started": after its      *)
(* initial monitorAllTrades); manualReturned is the value of the last      *)
(* manualExitTrade call for the tradeId that returned.                     *)
(*                                                                         *)
(* stRequest, stTrade, stPrice, stCond belong to the sequential            *)
(* specification SpecStep: the data one trade was registered with, the     *)
(* trade, the last price delivered to it and the exit condition            *)
(* checkExitConditions returned for it.                                    *)
(***************************************************************************)
VARIABLES isRunning, monitoringInterval, dbSyncInterval,
          liveMonitoring, liveDbSync,
          monitoredTrades, heap,
          tasks, syncTask, startTasks, addTasks,
          db, now, ops,
          execCalls, statusCalls, emitted,
          sinceStop, removedForExit, addResult, peerExecCalls,
          startReturned, manualReturned,
          stRequest, stTrade, stPrice, stCond

engineVars == <<isRunning, monitoringInterval, dbSyncInterval,
                liveMonitoring, liveDbSync,
                monitoredTrades, heap,
                tasks, syncTask, startTasks, addTasks,
                db, ops, execCalls, statusCalls, emitted,
                sinceStop, removedForExit, addResult, peerExecCalls,
                startReturned, manualReturned>>

stepVars == <<stRequest, stTrade, stPrice, stCond>>

vars == <<engineVars, now, stepVars>>

(***************************************************************************)
(* The sequential specification: monitorSingleTrade applied again and      *)
(* again to one trade, for every trade of StepTrades, every price of       *)
(* StepPrices and every clock value.                                       *)
(***************************************************************************)
StepPrices == {90, 98, 99, 100, 102, 105, 112}

StepData ==
    [ signalMessage : Sides,
      entryPrice    : {100},
      tp1           : {102, 105},
      tp2           : {100, 112},
      sl            : {90, 100, 105},
      maxExitTime   : {1, 2, MaxNow + 1},
      entryAmount   : {2},
      safeAddress   : {"safe1"},
      trailingStopEnabled : BOOLEAN ]

\* The trade registered with the data d.  trailingStopEnabled is also a
\* public field of the objects getMonitoredTrades hands out; both values of
\* the field are inputs of the step.
StepTradesOf(d) ==
    { [NewMonitoredTrade(1, d) EXCEPT !.trailingStopEnabled = e] :
        e \in {TRUE, d.trailingStopEnabled} }

StepTrades == UNION {StepTradesOf(d) : d \in StepData}

NoCond == NotTriggered(Null)

(***************************************************************************)
(* The engine specification.                                               *)
(***************************************************************************)
\* the trade ids the store can hold
Ids == {1, 2}

\* 0 stands for "no price" (the price service failed or returned null)
EnginePrices == {0, 98, 105}

\* The stored fields of trade id: odd ids are buys, even ids sells.
TradeData(id) ==
    IF id % 2 = 1
    THEN [signalMessage |-> "buy", entryPrice |-> 100, tp1 |-> 110,
          tp2 |-> 120, sl |-> 95, maxExitTime |-> 1, entryAmount |-> 2,
          safeAddress |-> "safe1"]
    ELSE [signalMessage |-> "sell", entryPrice |-> 100, tp1 |-> 90,
          tp2 |-> 80, sl |-> 105, maxExitTime |-> 1, entryAmount |-> 2,
          safeAddress |-> "safe2"]

\* the entryAmount of a registration request: the second one violates the
\* data invariant entryAmount > 0
AddAmounts == {2, -2}

NoRecord == [status |-> "none", exitData |-> Null, entryAmount |-> Null]

ActiveRecord(amount) ==
    [status |-> "active", exitData |-> Null, entryAmount |-> amount]

\* the fields of the stored record of trade id
StoredData(store, id) ==
    [TradeData(id) EXCEPT !.entryAmount = store[id].entryAmount]

EventNames == {"tradeAdded", "tradeExited", "tradeExitFailed"}

Max(S) == CHOOSE x \in S : \A y \in S : y <= x

\* The objects some reference still reaches.
GC(h, mt, tk) ==
    LET live == {mt[i] : i \in Ids} \cup {t.obj : t \in BagToSet(tk)}
    IN  [o \in (DOMAIN h) \cap live |-> h[o]]

NextFree(h) == IF DOMAIN h = {} THEN 1 ELSE Max(DOMAIN h) + 1

\* References for the new objects of the ids in S, in ascending id order.
NewRef(h, S, id) == NextFree(h) + Cardinality({j \in S : j < id})

SetAll_Nothing(mt, h, S) == mt

\* monitoredTrades.set(id, new MonitoredTrade) for every id of S
SetAll(mt, h, S) ==
    [i \in Ids |-> IF i \in S THEN NewRef(h, S, i) ELSE mt[i]]

HeapWith(h, S, store) ==
    [o \in (DOMAIN h) \cup {NewRef(h, S, i) : i \in S} |->
        IF o \in DOMAIN h THEN h[o]
        ELSE LET i == CHOOSE j \in S : NewRef(h, S, j) = o
             IN  NewMonitoredTrade(i, StoredData(store, i))]

\* databaseService.getActiveTrades
getActiveTrades(store) == {i \in Ids : store[i].status = "active"}

\* databaseService.updateTradeStatus.  A record that already is exited or
\* failed either keeps its first terminal write or takes the last one.
updateTradeStatus(store, id, status, extra, lastWriterWins) ==
    IF store[id].status \in {"exited", "failed"} /\ ~lastWriterWins
    THEN store
    ELSE [store EXCEPT ![id].status = status, ![id].exitData = extra]

\* exitTradeData and the amount argument of executeTrade: the request of
\* the reversing trade
exitTradeData_SameSide(trade, cond) ==
    [tradeId       |-> trade.tradeId,
     safeAddress   |-> trade.safeAddress,
     signalMessage |-> trade.signalMessage,
     currentPrice  |-> cond.currentPrice,
     entryPrice    |-> trade.entryPrice,
     entryAmount   |-> trade.entryAmount,
     amount        |-> trade.entryAmount]

exitTradeData(trade, cond) ==
    [tradeId       |-> trade.tradeId,
     safeAddress   |-> trade.safeAddress,
     signalMessage |-> IF trade.signalMessage = "buy" THEN "sell" ELSE "buy",
     currentPrice  |-> cond.currentPrice,
     entryPrice    |-> trade.entryPrice,
     entryAmount   |-> trade.entryAmount,
     amount        |-> trade.entryAmount]

\* no request yet
NoRequest ==
    [tradeId |-> Null, safeAddress |-> "", signalMessage |-> "",
     currentPrice |-> Null, entryPrice |-> Null, entryAmount |-> Null,
     amount |-> Null]

PriceTask(o) ==
    [pc |-> "price", obj |-> o, cond |-> NoCond, manual |-> FALSE,
     stale |-> FALSE, result |-> "none", request |-> NoRequest, pass |-> 0]

monitorAllTrades_Nothing(mt) == EmptyBag

\* monitorAllTrades: one monitorSingleTrade per object of the map, each
\* suspended at its price fetch
monitorAllTrades(mt) ==
    SetToBag({PriceTask(mt[i]) : i \in {j \in Ids : mt[j] # Null}})

Emit(e, name, id) == [e EXCEPT ![<<name, id>>] = @ + 1]

profitLoss_Unsigned(trade, cond) ==
    trade.entryAmount * cond.currentPrice
        - trade.entryAmount * trade.entryPrice

profitLoss(trade, cond) ==
    LET entryValue == trade.entryAmount * trade.entryPrice
        exitValue  == trade.entryAmount * cond.currentPrice
    IN  IF trade.signalMessage = "buy"
        THEN exitValue - entryValue
        ELSE entryValue - exitValue

exitDataOf(trade, cond) ==
    [exitType   |-> cond.type,
     exitPrice  |-> cond.currentPrice,
     exitAmount |-> trade.entryAmount,
     profitLoss |-> profitLoss(trade, cond)]

\* getSystemStatus: the running flag, the size of the map and the tradeId of
\* every object in it
getSystemStatus(running, mt, h) ==
    LET held == {i \in Ids : mt[i] # Null}
    IN  [isRunning            |-> running,
         monitoredTradesCount |-> Cardinality(held),
         trades               |-> {h[mt[i]].tradeId : i \in held}]

EngineInit ==
    /\ isRunning = FALSE
    /\ monitoringInterval = FALSE
    /\ dbSyncInterval = FALSE
    /\ liveMonitoring = 0
    /\ liveDbSync = 0
    /\ monitoredTrades = [i \in Ids |-> Null]
    /\ heap = <<>>
    /\ tasks = EmptyBag
    /\ syncTask = [pc |-> "idle", list |-> {}]
    /\ startTasks = EmptyBag
    /\ addTasks = {}
    /\ ops = 0
    /\ execCalls = [i \in Ids |-> 0]
    /\ statusCalls = [i \in Ids |-> 0]
    /\ emitted = [x \in EventNames \X Ids |-> 0]
    /\ sinceStop = FALSE
    /\ removedForExit = {}
    /\ addResult = [i \in Ids |-> "none"]
    /\ peerExecCalls = [i \in Ids |-> 0]
    /\ startReturned = "none"
    /\ manualReturned = [i \in Ids |-> "none"]

StepIdle ==
    /\ stRequest = TradeData(1) @@ [trailingStopEnabled |-> TRUE]
    /\ stTrade = NewMonitoredTrade(1, TradeData(1))
    /\ stPrice = Null
    /\ stCond = NoCond

\* The store is empty or holds an active trade of an earlier run when the
\* service is constructed.
Init ==
    /\ EngineInit
    /\ StepIdle
    /\ now = 0
    /\ \E k \in {0, 1} :
          db = [i \in Ids |-> IF i <= k
                              THEN ActiveRecord(TradeData(i).entryAmount)
                              ELSE NoRecord]

\* a number for the monitorAllTrades of a start() call that no waiting
\* start() call has
NextPass(st) ==
    LET used == {s.n : s \in BagToSet(st)} \ {0}
    IN  CHOOSE n \in 1..(Cardinality(used) + 1) :
           /\ n \notin used
           /\ \A m \in 1..(n - 1) : m \in used

\* the steps of the monitorAllTrades that the start() call n awaits
InPass(tk, n) ==
    LET S == BagToSet(tk)
    IN  [u \in {[t EXCEPT !.pass = n] : t \in S} |->
            tk[[u EXCEPT !.pass = 0]]]

\* Promise.allSettled: the start() calls of st that still wait, either for
\* the store or for a step of their initial monitorAllTrades
Awaiting(st, tk) ==
    LET waits(s) == \/ s.pc = "load"
                    \/ \E t \in BagToSet(tk) : t.pass = s.n
    IN  [s \in {x \in BagToSet(st) : waits(x)} |-> st[s]]

\* the start() calls whose steps have all settled return
SettleStarts(st) ==
    /\ startTasks' = Awaiting(st, tasks')
    /\ startReturned' = IF startTasks' # st THEN "started"
                        ELSE startReturned

(***************************************************************************)
(* start().  StartCall runs to the await of getActiveTrades: the store is  *)
(* read there (a failed read is caught by loadActiveTradesFromDatabase and *)
(* loads nothing).  StartResume is the rest: every loaded trade is set     *)
(* into the map as a new object, both timers are created, isRunning is set *)
(* and the initial monitorAllTrades starts one task per object.  start()   *)
(* awaits that monitorAllTrades: it returns when every task of it has      *)
(* settled, at once when there is none.                                    *)
(***************************************************************************)
StartCall_NoRunningTest ==
    /\ ops < MaxOps
    /\ IF FALSE
       THEN /\ ops' = ops + 1
            /\ startReturned' = "running"
            /\ UNCHANGED <<startTasks, sinceStop>>
       ELSE /\ \E ok \in BOOLEAN :
                 /\ ~ok => ops + 1 < MaxOps
                 /\ ops' = IF ok THEN ops + 1 ELSE ops + 2
                 /\ startTasks' = startTasks (+)
                      SetToBag({[list |-> IF ok THEN getActiveTrades(db)
                                          ELSE {},
                                 ok |-> ok, pc |-> "load",
                                 n |-> 0]})
            /\ sinceStop' = FALSE
            /\ UNCHANGED startReturned
    /\ UNCHANGED <<isRunning, monitoringInterval, dbSyncInterval,
                   liveMonitoring, liveDbSync, monitoredTrades, heap, tasks,
                   syncTask, addTasks, db, execCalls, statusCalls, emitted,
                   removedForExit, now, stepVars,
                   addResult>>
    /\ UNCHANGED <<peerExecCalls, manualReturned>>

StartCall ==
    /\ ops < MaxOps
    /\ IF isRunning
       THEN /\ ops' = ops + 1
            /\ startReturned' = "running"
            /\ UNCHANGED <<startTasks, sinceStop>>
       ELSE /\ \E ok \in BOOLEAN :
                 /\ ~ok => ops + 1 < MaxOps
                 /\ ops' = IF ok THEN ops + 1 ELSE ops + 2
                 /\ startTasks' = startTasks (+)
                      SetToBag({[list |-> IF ok THEN getActiveTrades(db)
                                          ELSE {},
                                 ok |-> ok, pc |-> "load",
                                 n |-> 0]})
            /\ sinceStop' = FALSE
            /\ UNCHANGED startReturned
    /\ UNCHANGED <<isRunning, monitoringInterval, dbSyncInterval,
                   liveMonitoring, liveDbSync, monitoredTrades, heap, tasks,
                   syncTask, addTasks, db, execCalls, statusCalls, emitted,
                   removedForExit, now, stepVars,
                   addResult>>
    /\ UNCHANGED <<peerExecCalls, manualReturned>>

StartResume(s) ==
    /\ BagIn(s, startTasks)
    /\ s.pc = "load"
    /\ monitoredTrades' = SetAll(monitoredTrades, heap, s.list)
    /\ monitoringInterval' = TRUE
    /\ liveMonitoring' = liveMonitoring + 1
    /\ dbSyncInterval' = TRUE
    /\ liveDbSync' = liveDbSync + 1
    /\ isRunning' = TRUE
    /\ tasks' = tasks (+) InPass(monitorAllTrades(monitoredTrades'),
                                 NextPass(startTasks))
    /\ BagCardinality(tasks') <= MaxTasks
    /\ heap' = GC(HeapWith(heap, s.list, db), monitoredTrades', tasks')
    /\ SettleStarts((startTasks (-) SetToBag({s}))
                       (+) SetToBag({[s EXCEPT !.pc = "monitor",
                                               !.n = NextPass(startTasks)]}))
    /\ sinceStop' = FALSE
    /\ UNCHANGED <<syncTask, addTasks, db, ops, execCalls, statusCalls,
                   emitted, removedForExit, now, stepVars,
                   addResult>>
    /\ UNCHANGED <<peerExecCalls, manualReturned>>

(***************************************************************************)
(* stop(): synchronous.  Tasks suspended at their price fetch when stop    *)
(* runs are marked (stale); nothing in the source cancels them.            *)
(***************************************************************************)
MarkStale_CancelAll(tk) == EmptyBag

MarkStale(tk) ==
    LET S == BagToSet(tk)
        mark(t) == IF t.pc = "price" THEN [t EXCEPT !.stale = TRUE] ELSE t
        T == {mark(t) : t \in S}
    IN  [u \in T |->
            (IF u \in S THEN tk[u] ELSE 0)
          + (IF u.pc = "price" /\ u.stale
                /\ [u EXCEPT !.stale = FALSE] \in S
             THEN tk[[u EXCEPT !.stale = FALSE]] ELSE 0)]

Stop ==
    /\ ops < MaxOps
    /\ ops' = ops + 1
    /\ IF ~isRunning
       THEN UNCHANGED <<isRunning, monitoringInterval, dbSyncInterval,
                        liveMonitoring, liveDbSync, monitoredTrades, heap,
                        tasks, sinceStop, addResult>>
       ELSE /\ liveMonitoring' =
                 IF monitoringInterval THEN liveMonitoring - 1
                 ELSE liveMonitoring
            /\ monitoringInterval' = FALSE
            /\ liveDbSync' =
                 IF dbSyncInterval THEN liveDbSync - 1 ELSE liveDbSync
            /\ dbSyncInterval' = FALSE
            /\ isRunning' = FALSE
            /\ monitoredTrades' = [i \in Ids |-> Null]
            /\ tasks' = MarkStale(tasks)
            /\ heap' = GC(heap, monitoredTrades', tasks')
            /\ sinceStop' = TRUE
            /\ addResult' = [i \in Ids |-> IF addResult[i] = "ok"
                                            THEN "stopped" ELSE addResult[i]]
    /\ UNCHANGED <<syncTask, startTasks, addTasks, db, execCalls,
                   statusCalls, emitted, removedForExit, now, stepVars>>
    /\ UNCHANGED <<peerExecCalls, startReturned, manualReturned>>

(***************************************************************************)
(* syncWithDatabase, run by the dbSync timer.  SyncFire reads the store    *)
(* (a failed read is caught and ends the run); SyncResume adds every       *)
(* listed trade the map does not hold and emits tradeAdded for it.         *)
(***************************************************************************)
SyncFire ==
    /\ liveDbSync > 0
    /\ syncTask.pc = "idle"
    /\ ops < MaxOps
    /\ \E ok \in BOOLEAN :
          /\ ~ok => ops + 1 < MaxOps
          /\ ops' = IF ok THEN ops + 1 ELSE ops + 2
          /\ syncTask' = IF ok
                         THEN [pc |-> "loaded", list |-> getActiveTrades(db)]
                         ELSE syncTask
    /\ UNCHANGED <<isRunning, monitoringInterval, dbSyncInterval,
                   liveMonitoring, liveDbSync, monitoredTrades, heap, tasks,
                   startTasks, addTasks, db, execCalls, statusCalls, emitted,
                   sinceStop, removedForExit, now, stepVars,
                   addResult>>
    /\ UNCHANGED <<peerExecCalls, startReturned, manualReturned>>

syncMissing_Nothing(mt, list) == {}

syncMissing(mt, list) == {i \in list : mt[i] = Null}

SyncResume ==
    /\ syncTask.pc = "loaded"
    /\ syncTask' = [pc |-> "idle", list |-> {}]
    /\ LET new == syncMissing(monitoredTrades, syncTask.list)
       IN  /\ monitoredTrades' = SetAll(monitoredTrades, heap, new)
           /\ heap' = GC(HeapWith(heap, new, db), monitoredTrades', tasks)
           /\ emitted' = [x \in EventNames \X Ids |->
                            IF x[1] = "tradeAdded" /\ x[2] \in new
                            THEN emitted[x] + 1 ELSE emitted[x]]
    /\ UNCHANGED <<isRunning, monitoringInterval, dbSyncInterval,
                   liveMonitoring, liveDbSync, tasks, startTasks, addTasks,
                   db, ops, execCalls, statusCalls, sinceStop,
                   removedForExit, now, stepVars,
                   addResult>>
    /\ UNCHANGED <<peerExecCalls, startReturned, manualReturned>>

(***************************************************************************)
(* addTradeToMonitoring.  AddCall stores the trade (storeExecutedTrade     *)
(* gives it the next id) or fails and throws; AddResume sets the new       *)
(* object into the map and emits tradeAdded.                               *)
(***************************************************************************)
FreeIds == {i \in Ids : db[i].status = "none" /\ addResult[i] = "none"}

AddCall_SwallowError ==
    /\ ops < MaxOps
    /\ FreeIds # {}
    /\ LET id == CHOOSE i \in FreeIds : \A j \in FreeIds : i <= j
       IN  \E ok \in BOOLEAN, amount \in AddAmounts :
             LET faults == (IF ok THEN 0 ELSE 1)
                             + (IF amount > 0 THEN 0 ELSE 1)
             IN  /\ ops + faults < MaxOps
                 /\ ops' = ops + 1 + faults
                 /\ addTasks' = addTasks \cup {id}
                 /\ IF ok
                    THEN /\ db' = [db EXCEPT ![id] = ActiveRecord(amount)]
                         /\ UNCHANGED addResult
                    ELSE /\ addResult' = [addResult EXCEPT ![id] = "error"]
                         /\ UNCHANGED db
    /\ sinceStop' = FALSE
    /\ UNCHANGED <<isRunning, monitoringInterval, dbSyncInterval,
                   liveMonitoring, liveDbSync, monitoredTrades, heap, tasks,
                   syncTask, startTasks, execCalls, statusCalls, emitted,
                   removedForExit, now, stepVars>>
    /\ UNCHANGED <<peerExecCalls, startReturned, manualReturned>>

AddCall ==
    /\ ops < MaxOps
    /\ FreeIds # {}
    /\ LET id == CHOOSE i \in FreeIds : \A j \in FreeIds : i <= j
       IN  \E ok \in BOOLEAN, amount \in AddAmounts :
             LET faults == (IF ok THEN 0 ELSE 1)
                             + (IF amount > 0 THEN 0 ELSE 1)
             IN  /\ ops + faults < MaxOps
                 /\ ops' = ops + 1 + faults
                 /\ IF ok
                    THEN /\ db' = [db EXCEPT ![id] = ActiveRecord(amount)]
                         /\ addTasks' = addTasks \cup {id}
                         /\ UNCHANGED addResult
                    ELSE /\ addResult' = [addResult EXCEPT ![id] = "error"]
                         /\ UNCHANGED <<db, addTasks>>
    /\ sinceStop' = FALSE
    /\ UNCHANGED <<isRunning, monitoringInterval, dbSyncInterval,
                   liveMonitoring, liveDbSync, monitoredTrades, heap, tasks,
                   syncTask, startTasks, execCalls, statusCalls, emitted,
                   removedForExit, now, stepVars>>
    /\ UNCHANGED <<peerExecCalls, startReturned, manualReturned>>

AddResume_ReturnFirst(id) ==
    /\ id \in addTasks
    /\ addTasks' = addTasks \ {id}
    /\ emitted' = Emit(emitted, "tradeAdded", id)
    /\ addResult' = [addResult EXCEPT ![id] = "ok"]
    /\ sinceStop' = FALSE
    /\ UNCHANGED <<isRunning, monitoringInterval, dbSyncInterval,
                   liveMonitoring, liveDbSync, tasks, syncTask, startTasks,
                   db, ops, execCalls, statusCalls, removedForExit, now,
                   stepVars, monitoredTrades, heap>>
    /\ UNCHANGED <<peerExecCalls, startReturned, manualReturned>>

AddResume(id) ==
    /\ id \in addTasks
    /\ addTasks' = addTasks \ {id}
    /\ monitoredTrades' = SetAll(monitoredTrades, heap, {id})
    /\ heap' = GC(HeapWith(heap, {id}, db), monitoredTrades', tasks)
    /\ emitted' = Emit(emitted, "tradeAdded", id)
    /\ addResult' = [addResult EXCEPT ![id] = "ok"]
    /\ sinceStop' = FALSE
    /\ UNCHANGED <<isRunning, monitoringInterval, dbSyncInterval,
                   liveMonitoring, liveDbSync, tasks, syncTask, startTasks,
                   db, ops, execCalls, statusCalls, removedForExit, now,
                   stepVars>>
    /\ UNCHANGED <<peerExecCalls, startReturned, manualReturned>>

\* A record put into the store by another writer.
ExternalInsert ==
    /\ ops < MaxOps
    /\ FreeIds # {}
    /\ ops' = ops + 1
    /\ LET id == CHOOSE i \in FreeIds : \A j \in FreeIds : i <= j
       IN  db' = [db EXCEPT ![id] = ActiveRecord(TradeData(id).entryAmount)]
    /\ UNCHANGED <<isRunning, monitoringInterval, dbSyncInterval,
                   liveMonitoring, liveDbSync, monitoredTrades, heap, tasks,
                   syncTask, startTasks, addTasks, execCalls, statusCalls,
                   emitted, sinceStop, removedForExit, now, stepVars,
                   addResult>>
    /\ UNCHANGED <<peerExecCalls, startReturned, manualReturned>>

(***************************************************************************)
(* The monitoring timer fires: monitorAllTrades.                           *)
(***************************************************************************)
MonitorFire ==
    /\ liveMonitoring > 0
    /\ ops < MaxOps
    /\ ops' = ops + 1
    /\ tasks' = tasks (+) monitorAllTrades(monitoredTrades)
    /\ BagCardinality(tasks') <= MaxTasks
    /\ UNCHANGED <<isRunning, monitoringInterval, dbSyncInterval,
                   liveMonitoring, liveDbSync, monitoredTrades, heap,
                   syncTask, startTasks, addTasks, db, execCalls,
                   statusCalls, emitted, sinceStop, removedForExit, now,
                   stepVars,
                   addResult>>
    /\ UNCHANGED <<peerExecCalls, startReturned, manualReturned>>

(***************************************************************************)
(* executeTradeExit up to its first await: the id is deleted from the map  *)
(* (whether or not it is there), the request of the reversing trade is     *)
(* built and executeTrade is called with it.  `old` is the  *)
(* suspended task that goes on as the exit, or Null for a manual exit.     *)
(***************************************************************************)
ExitTask(o, cond, manual, stale, request, pass) ==
    [pc |-> "exec", obj |-> o, cond |-> cond, manual |-> manual,
     stale |-> stale, result |-> "none", request |-> request, pass |-> pass]

executeTradeExit(h, base, o, cond, manual, stale, pass) ==
    LET id == h[o].id
    IN  /\ monitoredTrades' = [monitoredTrades EXCEPT ![id] = Null]
        /\ execCalls' = [execCalls EXCEPT ![id] = @ + 1]
        /\ removedForExit' = removedForExit \cup {id}
        /\ tasks' = base (+) SetToBag({ExitTask(o, cond, manual, stale,
                                                exitTradeData(h[o], cond),
                                                pass)})
        /\ heap' = GC(h, monitoredTrades', tasks')

(***************************************************************************)
(* monitorSingleTrade resumes with the price p (0: no price, the step      *)
(* returns).                                                               *)
(***************************************************************************)
PriceArrives_UpdateFirst(t, p) ==
    /\ BagIn(t, tasks)
    /\ t.pc = "price"
    /\ p = 0 => ops < MaxOps
    /\ ops' = IF p = 0 THEN ops + 1 ELSE ops
    /\ LET trade == monitorUpdate(heap[t.obj], p, now)
           h     == [heap EXCEPT ![t.obj] = trade]
           cond  == checkExitConditions(trade, p, now)
           rest  == tasks (-) SetToBag({t})
       IN  IF p # 0 /\ cond.triggered
           THEN executeTradeExit(h, rest, t.obj, cond, FALSE, t.stale,
                                      t.pass)
           ELSE /\ tasks' = rest
                /\ heap' = GC(h, monitoredTrades, tasks')
                /\ UNCHANGED <<monitoredTrades, execCalls, removedForExit>>
    /\ UNCHANGED <<isRunning, monitoringInterval, dbSyncInterval,
                   liveMonitoring, liveDbSync, syncTask,
                   addTasks, db, statusCalls, emitted, sinceStop, now,
                   stepVars, addResult>>
    /\ SettleStarts(startTasks)
    /\ UNCHANGED <<peerExecCalls, manualReturned>>

PriceArrives(t, p) ==
    /\ BagIn(t, tasks)
    /\ t.pc = "price"
    /\ p = 0 => ops < MaxOps
    /\ ops' = IF p = 0 THEN ops + 1 ELSE ops
    /\ IF p = 0
       THEN /\ tasks' = tasks (-) SetToBag({t})
            /\ heap' = GC(heap, monitoredTrades, tasks')
            /\ UNCHANGED <<monitoredTrades, execCalls, removedForExit>>
       ELSE LET trade == monitorUpdate(heap[t.obj], p, now)
                h     == [heap EXCEPT ![t.obj] = trade]
                cond  == checkExitConditions(trade, p, now)
                rest  == tasks (-) SetToBag({t})
            IN  IF cond.triggered
                THEN executeTradeExit(h, rest, t.obj, cond, FALSE, t.stale,
                                      t.pass)
                ELSE /\ tasks' = rest
                     /\ heap' = GC(h, monitoredTrades, tasks')
                     /\ UNCHANGED <<monitoredTrades, execCalls,
                                    removedForExit>>
    /\ UNCHANGED <<isRunning, monitoringInterval, dbSyncInterval,
                   liveMonitoring, liveDbSync, syncTask,
                   addTasks, db, statusCalls, emitted, sinceStop, now,
                   stepVars,
                   addResult>>
    /\ SettleStarts(startTasks)
    /\ UNCHANGED <<peerExecCalls, manualReturned>>

(***************************************************************************)
(* manualExitTrade: the trade is looked up in the map by its tradeId; when *)
(* found, an exit condition of type TP1 at the last price (the entry price *)
(* when there is none) drives executeTradeExit.                            *)
(***************************************************************************)
manualExitPrice_Entry(trade) == trade.entryPrice

\* trade.currentPrice || trade.entryPrice
manualExitPrice(trade) ==
    IF trade.currentPrice # Null THEN trade.currentPrice
    ELSE trade.entryPrice

manualExitTrade_NotFoundTrue(id) ==
    /\ ops < MaxOps
    /\ monitoredTrades[id] # Null => BagCardinality(tasks) < MaxTasks
    /\ ops' = ops + 1
    /\ IF monitoredTrades[id] = Null
       THEN /\ manualReturned' = [manualReturned EXCEPT ![id] = "true"]
            /\ UNCHANGED <<monitoredTrades, heap, tasks, execCalls,
                           removedForExit>>
       ELSE LET trade == heap[monitoredTrades[id]]
                cond  == Triggered("TP1", manualExitPrice(trade))
            IN  /\ UNCHANGED manualReturned
                /\ executeTradeExit(heap, tasks, monitoredTrades[id], cond,
                                 TRUE, FALSE, 0)
    /\ UNCHANGED <<isRunning, monitoringInterval, dbSyncInterval,
                   liveMonitoring, liveDbSync, syncTask, startTasks,
                   addTasks, db, statusCalls, emitted, sinceStop, now,
                   stepVars,
                   addResult>>
    /\ UNCHANGED <<peerExecCalls, startReturned>>

manualExitTrade(id) ==
    /\ ops < MaxOps
    /\ monitoredTrades[id] # Null => BagCardinality(tasks) < MaxTasks
    /\ ops' = ops + 1
    /\ IF monitoredTrades[id] = Null
       THEN /\ manualReturned' = [manualReturned EXCEPT ![id] = "false"]
            /\ UNCHANGED <<monitoredTrades, heap, tasks, execCalls,
                           removedForExit>>
       ELSE LET trade == heap[monitoredTrades[id]]
                cond  == Triggered("TP1", manualExitPrice(trade))
            IN  /\ UNCHANGED manualReturned
                /\ executeTradeExit(heap, tasks, monitoredTrades[id], cond,
                                 TRUE, FALSE, 0)
    /\ UNCHANGED <<isRunning, monitoringInterval, dbSyncInterval,
                   liveMonitoring, liveDbSync, syncTask, startTasks,
                   addTasks, db, statusCalls, emitted, sinceStop, now,
                   stepVars,
                   addResult>>
    /\ UNCHANGED <<peerExecCalls, startReturned>>

(***************************************************************************)
(* executeTrade returns (its result, ok or not ok, is not looked at) or    *)
(* throws.  Either way updateTradeStatus is called next: "exited" after a  *)
(* return, "failed" from the catch block after a throw.  The task keeps    *)
(* the outcome in `result`.                                                *)
(***************************************************************************)
ExecOutcomes == {"ok", "notok", "throw"}

ExecReturns_TickAborted(t, outcome) ==
    /\ BagIn(t, tasks)
    /\ t.pc = "exec"
    /\ outcome # "ok" => ops < MaxOps
    /\ ops' = IF outcome # "ok" THEN ops + 1 ELSE ops
    /\ tasks' = (IF outcome = "throw"
                 THEN EmptyBag ELSE tasks (-) SetToBag({t})) (+)
          SetToBag({[t EXCEPT !.pc = IF outcome = "throw" THEN "dbFailed"
                                     ELSE "dbExited",
                              !.result = outcome]})
    /\ statusCalls' = [statusCalls EXCEPT ![heap[t.obj].id] = @ + 1]
    /\ UNCHANGED <<isRunning, monitoringInterval, dbSyncInterval,
                   liveMonitoring, liveDbSync, monitoredTrades, heap,
                   syncTask, startTasks, addTasks, db, execCalls,
                   emitted, sinceStop, removedForExit, now, stepVars,
                   addResult>>
    /\ UNCHANGED <<peerExecCalls, startReturned, manualReturned>>

ExecReturns(t, outcome) ==
    /\ BagIn(t, tasks)
    /\ t.pc = "exec"
    /\ outcome # "ok" => ops < MaxOps
    /\ ops' = IF outcome # "ok" THEN ops + 1 ELSE ops
    /\ tasks' = (tasks (-) SetToBag({t})) (+)
          SetToBag({[t EXCEPT !.pc = IF outcome = "throw" THEN "dbFailed"
                                     ELSE "dbExited",
                              !.result = outcome]})
    /\ statusCalls' = [statusCalls EXCEPT ![heap[t.obj].id] = @ + 1]
    /\ UNCHANGED <<isRunning, monitoringInterval, dbSyncInterval,
                   liveMonitoring, liveDbSync, monitoredTrades, heap,
                   syncTask, startTasks, addTasks, db, execCalls,
                   emitted, sinceStop, removedForExit, now, stepVars,
                   addResult>>
    /\ UNCHANGED <<peerExecCalls, startReturned, manualReturned>>

(***************************************************************************)
(* updateTradeStatus(id, "exited", exitData) returns: tradeExited is       *)
(* emitted; or it throws: the catch block calls                            *)
(* updateTradeStatus(id, "failed", ...).                                   *)
(***************************************************************************)
ExitedWritten(t, ok, lastWriterWins) ==
    /\ BagIn(t, tasks)
    /\ t.pc = "dbExited"
    /\ ~ok => ops < MaxOps
    /\ ops' = IF ok THEN ops ELSE ops + 1
    /\ LET trade == heap[t.obj]
       IN  IF ok
           THEN /\ db' = updateTradeStatus(db, trade.id, "exited",
                             exitDataOf(trade, t.cond), lastWriterWins)
                /\ emitted' = Emit(emitted, "tradeExited", trade.id)
                /\ tasks' = tasks (-) SetToBag({t})
                /\ heap' = GC(heap, monitoredTrades, tasks')
                /\ manualReturned' =
                      IF t.manual
                      THEN [manualReturned EXCEPT ![trade.id] = "true"]
                      ELSE manualReturned
                /\ UNCHANGED statusCalls
           ELSE /\ tasks' = (tasks (-) SetToBag({t})) (+)
                       SetToBag({[t EXCEPT !.pc = "dbFailed"]})
                /\ statusCalls' = [statusCalls EXCEPT ![trade.id] = @ + 1]
                /\ UNCHANGED <<db, emitted, heap, manualReturned>>
    /\ UNCHANGED <<isRunning, monitoringInterval, dbSyncInterval,
                   liveMonitoring, liveDbSync, monitoredTrades, syncTask,
                    addTasks, execCalls, sinceStop,
                   removedForExit, now, stepVars,
                   addResult>>
    /\ SettleStarts(startTasks)
    /\ UNCHANGED peerExecCalls

(***************************************************************************)
(* updateTradeStatus(id, "failed", ...) returns: tradeExitFailed is        *)
(* emitted; or it throws out of executeTradeExit, to the caller's catch.   *)
(* A manualExitTrade that awaited the exit returns true when               *)
(* executeTradeExit returned, false when it threw.                         *)
(***************************************************************************)
FailedWritten(t, ok, lastWriterWins) ==
    /\ BagIn(t, tasks)
    /\ t.pc = "dbFailed"
    /\ ~ok => ops < MaxOps
    /\ ops' = IF ok THEN ops ELSE ops + 1
    /\ LET trade == heap[t.obj]
       IN  IF ok
           THEN /\ db' = updateTradeStatus(db, trade.id, "failed",
                             [error |-> "error"], lastWriterWins)
                /\ emitted' = Emit(emitted, "tradeExitFailed", trade.id)
           ELSE UNCHANGED <<db, emitted>>
    /\ manualReturned' =
          IF t.manual
          THEN [manualReturned EXCEPT
                   ![heap[t.obj].id] = IF ok THEN "true" ELSE "false"]
          ELSE manualReturned
    /\ tasks' = tasks (-) SetToBag({t})
    /\ heap' = GC(heap, monitoredTrades, tasks')
    /\ UNCHANGED <<isRunning, monitoringInterval, dbSyncInterval,
                   liveMonitoring, liveDbSync, monitoredTrades, syncTask,
                    addTasks, execCalls, statusCalls,
                   sinceStop, removedForExit, now, stepVars,
                   addResult>>
    /\ SettleStarts(startTasks)
    /\ UNCHANGED peerExecCalls

\* Time passes, until every deadline has passed.
LastDeadline == Max({TradeData(i).maxExitTime : i \in Ids})

ClockTick ==
    /\ now < LastDeadline
    /\ ops < MaxOps
    /\ ops' = ops + 1
    /\ now' = now + 1
    /\ UNCHANGED <<isRunning, monitoringInterval, dbSyncInterval,
                liveMonitoring, liveDbSync,
                monitoredTrades, heap,
                tasks, syncTask, startTasks, addTasks,
                db, execCalls, statusCalls, emitted,
                sinceStop, removedForExit, stepVars,
                   addResult>>
    /\ UNCHANGED <<peerExecCalls, startReturned, manualReturned>>

\* The suspended tasks resume in any order, with any outcome of the call
\* they were waiting for.
ResumeStart == \E s \in BagToSet(startTasks) : StartResume(s)

ResumeAdd == \E id \in Ids : AddResume(id)

ResumePrice ==
    \E t \in BagToSet(tasks), p \in EnginePrices : PriceArrives(t, p)

ManualExit == \E id \in Ids : manualExitTrade(id)

ResumeExec ==
    \E t \in BagToSet(tasks), o \in ExecOutcomes : ExecReturns(t, o)

ResumeExitedWrite ==
    \E t \in BagToSet(tasks), ok \in BOOLEAN, w \in BOOLEAN :
        ExitedWritten(t, ok, w)

ResumeFailedWrite ==
    \E t \in BagToSet(tasks), ok \in BOOLEAN, w \in BOOLEAN :
        FailedWritten(t, ok, w)

Next ==
    \/ StartCall
    \/ ResumeStart
    \/ Stop
    \/ SyncFire
    \/ SyncResume
    \/ AddCall
    \/ ResumeAdd
    \/ ExternalInsert
    \/ MonitorFire
    \/ ResumePrice
    \/ ManualExit
    \/ ResumeExec
    \/ ResumeExitedWrite
    \/ ResumeFailedWrite
    \/ ClockTick

Spec == Init /\ [][Next]_vars

(***************************************************************************)
(* Two instances of the service against one database.  The second          *)
(* instance runs the same code; what it does to a trade is taken as one    *)
(* step: it holds the active record i as a newly loaded object, its        *)
(* monitoring step gets the price p, an exit condition triggers, it calls  *)
(* executeTrade and writes the record as exited.                           *)
(***************************************************************************)
PeerExit(i, p) ==
    /\ ops < MaxOps
    /\ ops' = ops + 1
    /\ db[i].status = "active"
    /\ LET trade == monitorUpdate(NewMonitoredTrade(i, StoredData(db, i)),
                                  p, now)
           cond  == checkExitConditions(trade, p, now)
       IN  /\ cond.triggered
           /\ db' = updateTradeStatus(db, i, "exited",
                                      exitDataOf(trade, cond), FALSE)
    /\ peerExecCalls' = [peerExecCalls EXCEPT ![i] = @ + 1]
    /\ UNCHANGED <<isRunning, monitoringInterval, dbSyncInterval,
                   liveMonitoring, liveDbSync, monitoredTrades, heap, tasks,
                   syncTask, startTasks, addTasks, execCalls, statusCalls,
                   emitted, sinceStop, removedForExit, addResult, now,
                   startReturned, manualReturned, stepVars>>

PeerExits == \E i \in Ids, p \in EnginePrices \ {0} : PeerExit(i, p)

NextPeers ==
    \/ Next
    \/ PeerExits

SpecPeers == Init /\ [][NextPeers]_vars

(***************************************************************************)
(* The engine with the trades the store holds or is given from outside,    *)
(* without addTradeToMonitoring and the sync timer, and with the awaited   *)
(* calls of an exit coming back: executeTrade returns or throws, and so    *)
(* does each updateTradeStatus.                                            *)
(***************************************************************************)
NextLive ==
    \/ ExternalInsert
    \/ StartCall
    \/ ResumeStart
    \/ Stop
    \/ MonitorFire
    \/ ResumePrice
    \/ ManualExit
    \/ ResumeExec
    \/ ResumeExitedWrite
    \/ ResumeFailedWrite
    \/ ClockTick

SpecLive ==
    /\ Init
    /\ [][NextLive]_vars
    /\ WF_vars(ResumeExec)
    /\ WF_vars(ResumeExitedWrite)
    /\ WF_vars(ResumeFailedWrite)

(***************************************************************************)
(* The sequential specification.  StepPrice is monitorSingleTrade resumed  *)
(* with price p for the trade stTrade: the field updates, the trailing     *)
(* stop update and checkExitConditions.  StepNoPrice is the step that got  *)
(* no price and returns.  Once an exit condition has triggered the trade   *)
(* leaves monitoring and the steps end.                                    *)
(***************************************************************************)
StepInit ==
    /\ EngineInit
    /\ db = [i \in Ids |-> NoRecord]
    /\ now = 0
    /\ stRequest \in StepData
    /\ stTrade \in StepTradesOf(stRequest)
    /\ stPrice = Null
    /\ stCond = NoCond

StepPrice(p) ==
    /\ ~stCond.triggered
    /\ stTrade.priceCheckCount < MaxChecks
    /\ stPrice' = p
    /\ stTrade' = monitorUpdate(stTrade, p, now)
    /\ stCond' = checkExitConditions(stTrade', p, now)
    /\ UNCHANGED <<engineVars, now, stRequest>>

StepNoPrice ==
    /\ ~stCond.triggered
    /\ stPrice # Null
    /\ stPrice' = Null
    /\ UNCHANGED <<engineVars, now, stRequest, stTrade, stCond>>

StepClock ==
    /\ ~stCond.triggered
    /\ now < MaxNow
    /\ now' = now + 1
    /\ UNCHANGED <<engineVars, stepVars>>

StepAnyPrice == \E p \in StepPrices : StepPrice(p)

StepNext ==
    \/ StepAnyPrice
    \/ StepNoPrice
    \/ StepClock

SpecStep == StepInit /\ [][StepNext]_vars

(***************************************************************************)
(* Properties of the engine specification Spec.                            *)
(***************************************************************************)
NoTrades == [i \in Ids |-> Null]

\* C1: executeTrade is called at most once for every trade id, whatever
\* the interleaving of monitoring ticks and manual exits.
C1_ExecuteAtMostOnce ==
    \A i \in Ids : execCalls[i] <= 1

\* C2: updateTradeStatus(id, exited | failed) is called at most once for
\* every trade id, for every outcome of the executor and of the store.
C2_UpdateStatusAtMostOnce ==
    \A i \in Ids : statusCalls[i] <= 1

\* C3: a trade id that executeTradeExit has removed from monitoredTrades
\* is never in monitoredTrades again.
C3_NeverReinserted ==
    \A i \in removedForExit : monitoredTrades[i] = Null

\* C4: every trade id in monitoredTrades has a stored record whose status
\* is active.
C4_RegistrySubsetOfActive ==
    \A i \in Ids : monitoredTrades[i] # Null => db[i].status = "active"

\* C5: the stored status changes only from active to exited or failed; an
\* exited or failed record keeps its status.
C5_TerminalStatusFrozen ==
    [][\A i \in Ids :
          /\ db[i].status \in {"exited", "failed"}
                => db'[i].status = db[i].status
          /\ db[i].status = "active"
                => db'[i].status \in {"active", "exited", "failed"}]_vars

\* C6: for every exit the removal from monitoredTrades comes first, then
\* the call of executeTrade, then the call of updateTradeStatus, then the
\* tradeExited event; and none of the three happens for a trade id that
\* is in monitoredTrades.
C6_ExitOrder ==
    [][\A i \in Ids :
          LET executes == execCalls'[i] # execCalls[i]
              writes   == statusCalls'[i] # statusCalls[i]
              stored   == /\ db'[i] # db[i]
                          /\ db'[i].status \in {"exited", "failed"}
              emits    == \/ emitted'[<<"tradeExited", i>>]
                                 # emitted[<<"tradeExited", i>>]
                          \/ emitted'[<<"tradeExitFailed", i>>]
                                 # emitted[<<"tradeExitFailed", i>>]
          IN  /\ executes => i \in removedForExit'
              /\ writes => execCalls[i] > 0
              /\ emits => statusCalls[i] > 0
              /\ (executes \/ writes \/ stored \/ emits)
                    => monitoredTrades'[i] = Null]_vars

\* C7: from the return of stop() until the next start() or
\* addTradeToMonitoring, monitoredTrades is empty and no interval timer
\* is live.
C7_NoLeakAfterStop ==
    sinceStop =>
        /\ monitoredTrades = NoTrades
        /\ liveMonitoring = 0
        /\ liveDbSync = 0

\* C8: a monitorSingleTrade that was waiting for its price when stop() ran
\* never goes on to executeTradeExit: it neither calls executeTrade nor
\* updateTradeStatus.
C8_StaleWorkAbandoned ==
    \A t \in BagToSet(tasks) : t.stale => t.pc = "price"

(***************************************************************************)
(* Properties of the sequential specification SpecStep.                    *)
(***************************************************************************)
\* The priority table: the exit kinds in their order, each with its
\* predicate for the side of the trade.
PriorityTable(trade, price, t) ==
    LET buy == trade.signalMessage = "buy"
    IN  << <<"MAX_EXIT_TIME", t >= trade.maxExitTime>>,
           <<"TRAILING_STOP",
             /\ trade.trailingStopEnabled
             /\ IF buy THEN price * Scale <= trade.trailingStopPrice
                ELSE price * Scale >= trade.trailingStopPrice>>,
           <<"STOP_LOSS",
             IF buy THEN price <= trade.sl ELSE price >= trade.sl>>,
           <<"TP2",
             IF buy THEN price >= trade.tp2 ELSE price <= trade.tp2>>,
           <<"TP1",
             IF buy THEN price >= trade.tp1 ELSE price <= trade.tp1>> >>

TrueRows(tab) == {k \in 1..Len(tab) : tab[k][2]}

\* C9: the exit condition of a monitoring step is triggered exactly when
\* some predicate of the priority table is true at the step's price and
\* clock, and its type is the first true row of the table.
C9_PriorityOrder ==
    [][stTrade' # stTrade =>
          LET rows == TrueRows(PriorityTable(stTrade', stPrice', now))
          IN  /\ stCond'.triggered <=> rows # {}
              /\ stCond'.currentPrice = stPrice'
              /\ rows # {} =>
                    /\ stCond'.type = PriorityTable(stTrade', stPrice', now)
                                         [CHOOSE k \in rows :
                                             \A j \in rows : k <= j][1]]_vars

\* A buy with the trailing stop enabled for which stop loss and take
\* profit 1 are both true and the trailing stop is not: STOP_LOSS is chosen.
C9_Witness ==
    /\ stTrade.signalMessage = "buy"
    /\ stTrade.trailingStopEnabled
    /\ stCond.triggered
    /\ stCond.type = "STOP_LOSS"
    /\ stPrice # Null
    /\ stPrice >= stTrade.tp1

\* C10: highestPriceSinceEntry never decreases for a buy and never
\* increases for a sell, whatever prices the monitoring steps deliver.
C10_ExtremumMonotone ==
    [][/\ stTrade.signalMessage = "buy" =>
             stTrade'.highestPriceSinceEntry >= stTrade.highestPriceSinceEntry
       /\ stTrade.signalMessage = "sell" =>
             stTrade'.highestPriceSinceEntry <= stTrade.highestPriceSinceEntry
      ]_vars

\* A buy whose extremum has risen above the entry price and that then got a
\* price below the extremum.
C10_Witness ==
    /\ stTrade.signalMessage = "buy"
    /\ stTrade.highestPriceSinceEntry > stTrade.entryPrice
    /\ stPrice # Null
    /\ stPrice < stTrade.highestPriceSinceEntry

(***************************************************************************)
(* Profit and loss, reconciliation and the handling of failures.           *)
(***************************************************************************)
\* the task t goes on (or ends) in this step
Proceeds(t) == CopiesIn(t, tasks') < CopiesIn(t, tasks)

\* C11: whenever a record is written as exited, its exitPrice is the price
\* of the exit condition that fired and its profitLoss is
\* entryAmount * (exitPrice - entryPrice) for a buy and
\* entryAmount * (entryPrice - exitPrice) for a sell; an exit at the entry
\* price records a profitLoss of 0.
C11_ProfitLossLaw ==
    [][\A i \in Ids :
          (db'[i] # db[i] /\ db'[i].status = "exited") =>
             \E t \in BagToSet(tasks) :
                LET trade == heap[t.obj]
                    d     == db'[i].exitData
                IN  /\ t.pc = "dbExited"
                    /\ trade.id = i
                    /\ Proceeds(t)
                    /\ d.exitPrice = t.cond.currentPrice
                    /\ d.profitLoss =
                          IF trade.signalMessage = "buy"
                          THEN trade.entryAmount
                                  * (d.exitPrice - trade.entryPrice)
                          ELSE trade.entryAmount
                                  * (trade.entryPrice - d.exitPrice)
                    /\ d.exitPrice = trade.entryPrice => d.profitLoss = 0]_vars

\* A sell that was exited above its entry price: a loss is recorded.
C11_Witness ==
    \E i \in Ids :
       /\ TradeData(i).signalMessage = "sell"
       /\ db[i].status = "exited"
       /\ db[i].exitData.exitPrice > TradeData(i).entryPrice
       /\ db[i].exitData.profitLoss < 0

\* C12: when a run of syncWithDatabase that has read the store completes,
\* every record it read as active (whoever inserted it) is in
\* monitoredTrades, and getSystemStatus counts and lists it.
C12_SyncAdoptsActiveRecords ==
    [][(syncTask.pc = "loaded" /\ syncTask'.pc = "idle") =>
          LET status == getSystemStatus(isRunning', monitoredTrades', heap')
          IN  /\ \A i \in syncTask.list :
                    /\ monitoredTrades'[i] # Null
                    /\ i \in status.trades
              /\ status.monitoredTradesCount >= Cardinality(syncTask.list)
      ]_vars

\* A record no addTradeToMonitoring call has inserted is monitored by the
\* running engine, tradeAdded having been emitted for it by the sync.
C12_Witness ==
    \E i \in Ids :
       /\ isRunning
       /\ addResult[i] = "none"
       /\ db[i].status = "active"
       /\ emitted[<<"tradeAdded", i>>] > 0
       /\ monitoredTrades[i] # Null
       /\ getSystemStatus(isRunning, monitoredTrades,
                          heap).monitoredTradesCount >= 1

\* C13: an exit whose executeTrade threw or returned a result that is not
\* ok never emits tradeExited, never writes a status other than failed, and
\* leaves monitoredTrades as it is.
C13_ExecutorFailureIsFailed ==
    [][\A t \in BagToSet(tasks) :
          (t.result \in {"notok", "throw"} /\ Proceeds(t)) =>
             LET i == heap[t.obj].id
             IN  /\ emitted'[<<"tradeExited", i>>]
                       = emitted[<<"tradeExited", i>>]
                 /\ db'[i] # db[i] => db'[i].status = "failed"
                 /\ monitoredTrades'[i] = monitoredTrades[i]]_vars

\* C14: an exit whose executeTrade returned ok and whose write of the
\* status exited failed neither writes the status failed nor emits
\* tradeExitFailed.
C14_FailedWriteOnlyLogged ==
    [][\A t \in BagToSet(tasks) :
          (t.result = "ok" /\ t.pc = "dbFailed" /\ Proceeds(t)) =>
             LET i == heap[t.obj].id
             IN  /\ emitted'[<<"tradeExitFailed", i>>]
                       = emitted[<<"tradeExitFailed", i>>]
                 /\ db'[i] = db[i]]_vars

\* C16: an addTradeToMonitoring call whose store insert failed has thrown:
\* nothing is stored for it, nothing is set into monitoredTrades, no task
\* goes on to do so and tradeAdded is not emitted.
C16_FailedInsertLeavesNoTrace ==
    \A i \in Ids :
       addResult[i] = "error" =>
          /\ db[i].status = "none"
          /\ monitoredTrades[i] = Null
          /\ i \notin addTasks
          /\ emitted[<<"tradeAdded", i>>] = 0

\* An insert has failed while the engine was running and monitoring the
\* trade of an earlier run.
C16_Witness ==
    \E i \in Ids :
       /\ addResult[i] = "error"
       /\ isRunning
       /\ monitoredTrades # NoTrades

\* C17: no record addTradeToMonitoring has stored and no object of
\* monitoredTrades has an entryAmount that is zero or negative.
C17_InvalidRequestRejected ==
    \A i \in Ids :
       /\ db[i].status # "none" => db[i].entryAmount > 0
       /\ monitoredTrades[i] # Null
             => heap[monitoredTrades[i]].entryAmount > 0

\* C18: a monitorSingleTrade that got no price ends without a change: the
\* object keeps all its fields, monitoredTrades and the store are as
\* before, and executeTrade, updateTradeStatus and emit are not called.
C18_NoPriceChangesNothing ==
    [][\A t \in BagToSet(tasks) :
          (/\ t.pc = "price"
           /\ ops' = ops + 1
           /\ BagCardinality(tasks') = BagCardinality(tasks) - 1
           /\ CopiesIn(t, tasks') = CopiesIn(t, tasks) - 1) =>
             /\ t.obj \in DOMAIN heap' => heap'[t.obj] = heap[t.obj]
             /\ UNCHANGED <<monitoredTrades, db, execCalls, statusCalls,
                            emitted>>]_vars

\* start() has loaded trade 1 and its first monitoring step got no price:
\* the trade is monitored, never checked, and no task is left.
C18_Witness ==
    /\ ops = 2
    /\ isRunning
    /\ liveMonitoring = 1
    /\ startTasks = EmptyBag
    /\ tasks = EmptyBag
    /\ syncTask.pc = "idle"
    /\ addResult = [i \in Ids |-> "none"]
    /\ db[2].status = "none"
    /\ execCalls = [i \in Ids |-> 0]
    /\ monitoredTrades[1] # Null
    /\ heap[monitoredTrades[1]].priceCheckCount = 0
    /\ heap[monitoredTrades[1]].lastPriceCheck = -1
    /\ heap[monitoredTrades[1]].currentPrice = Null

\* C19: when the price service, the executor or the store fails for one
\* task, every other task in flight stays as it is, exactly the failing
\* task moves, and both timers stay live.
C19_FailuresConfined ==
    [][\A t \in BagToSet(tasks) :
          (ops' > ops /\ isRunning' = isRunning /\ Proceeds(t)) =>
             /\ CopiesIn(t, tasks') = CopiesIn(t, tasks) - 1
             /\ \A u \in BagToSet(tasks) :
                   u # t => CopiesIn(u, tasks') >= CopiesIn(u, tasks)
             /\ liveMonitoring' = liveMonitoring
             /\ liveDbSync' = liveDbSync]_vars

\* The executor has thrown for one trade while the monitoring step of
\* another trade of the same tick is still waiting for its price.
C19_Witness ==
    \E t, u \in BagToSet(tasks) :
       /\ t.pc = "dbFailed"
       /\ t.result = "throw"
       /\ u.pc = "price"
       /\ ~u.stale
       /\ u.obj # t.obj
       /\ liveMonitoring > 0

\* C20: in a running engine, every monitorAllTrades started after
\* addTradeToMonitoring returned for a trade, with no stop() in between and
\* the trade not removed for exit, starts a monitoring step for the trade.
C20_RegisteredIsInEverySnapshot ==
    [][\A i \in Ids :
          (/\ addResult[i] = "ok"
           /\ isRunning
           /\ i \notin removedForExit
           /\ ops' = ops + 1
           /\ tasks' = tasks (+) monitorAllTrades(monitoredTrades)) =>
             /\ monitoredTrades[i] # Null
             /\ BagIn(PriceTask(monitoredTrades[i]), tasks')]_vars

\* A trade registered in the running engine has a monitoring step waiting
\* for its price.
C20_Witness ==
    \E i \in Ids :
       /\ addResult[i] = "ok"
       /\ isRunning
       /\ i \notin removedForExit
       /\ monitoredTrades[i] # Null
       /\ BagIn(PriceTask(monitoredTrades[i]), tasks)

(***************************************************************************)
(* The deadline in the sequential specification.                           *)
(***************************************************************************)
\* C15: a monitoring step taken when the clock has reached maxExitTime
\* triggers MAX_EXIT_TIME whatever the price, at the price of the step or,
\* when the step got no price, at the last price the trade has.
C15_DeadlineExitsWithoutPrice ==
    [][(/\ now >= stTrade.maxExitTime
        /\ <<stTrade, stPrice>>' # <<stTrade, stPrice>>) =>
          /\ stCond'.triggered
          /\ stCond'.type = "MAX_EXIT_TIME"
          /\ stCond'.currentPrice =
                IF stPrice' # Null THEN stPrice' ELSE stTrade.currentPrice
      ]_vars

\* C25: a buy registered with trailingStopEnabled = false whose price is at
\* or below sl before maxExitTime exits with STOP_LOSS at that price.
C25_StopLossWhenTrailingDisabled ==
    [][(/\ ~stRequest.trailingStopEnabled
        /\ stTrade.signalMessage = "buy"
        /\ stTrade' # stTrade
        /\ stPrice' <= stTrade.sl
        /\ now < stTrade.maxExitTime) =>
          /\ stCond'.triggered
          /\ stCond'.type = "STOP_LOSS"
          /\ stCond'.currentPrice = stPrice']_vars

\* C28: over the monitoring steps of a trade, trailingStopPrice never
\* decreases for a buy and never increases for a sell.
C28_TrailingStopOnlyTightens ==
    [][/\ stTrade.signalMessage = "buy" =>
             stTrade'.trailingStopPrice >= stTrade.trailingStopPrice
       /\ stTrade.signalMessage = "sell" =>
             stTrade'.trailingStopPrice <= stTrade.trailingStopPrice
      ]_vars

(***************************************************************************)
(* Restart, the exit request and the contents of monitoredTrades.          *)
(***************************************************************************)
\* C27: a trade that is in monitoredTrades and has had no price check yet
\* has its extremum at the entry price and its trailing stop 1% below the
\* entry price for a buy, 1% above it for a sell.
C27_InitialTrailingStopBySide ==
    \A i \in Ids :
       (monitoredTrades[i] # Null
           /\ heap[monitoredTrades[i]].priceCheckCount = 0) =>
          LET trade == heap[monitoredTrades[i]]
          IN  /\ trade.highestPriceSinceEntry = trade.entryPrice
              /\ trade.trailingStopPrice =
                    IF trade.signalMessage = "buy"
                    THEN trade.entryPrice * TrailBelow
                    ELSE trade.entryPrice * TrailAbove

\* C23: the request every exit passes to executeTrade has the side
\* opposite to the trade's, the trade's tradeId and safeAddress, and the
\* trade's whole entryAmount as its amount; and the exitAmount of every
\* exited record is the entryAmount of the record.
C23_ReversingRequest ==
    /\ \A t \in BagToSet(tasks) :
          t.pc # "price" =>
             LET trade == heap[t.obj]
             IN  /\ t.request.signalMessage \in Sides \ {trade.signalMessage}
                 /\ t.request.tradeId = trade.tradeId
                 /\ t.request.safeAddress = trade.safeAddress
                 /\ t.request.entryPrice = trade.entryPrice
                 /\ t.request.amount = trade.entryAmount
    /\ \A i \in Ids :
          db[i].status = "exited" =>
             db[i].exitData.exitAmount = db[i].entryAmount

\* The reversing trade of a sell is in flight as a buy while another trade
\* has been exited and recorded with its whole amount.
C23_Witness ==
    /\ \E t \in BagToSet(tasks) :
          /\ t.pc = "exec"
          /\ heap[t.obj].signalMessage = "sell"
          /\ t.request.signalMessage = "buy"
          /\ t.request.amount = heap[t.obj].entryAmount
    /\ \E i \in Ids :
          /\ db[i].status = "exited"
          /\ db[i].exitData.exitAmount = db[i].entryAmount

\* the start() call s resumes from its load in this step
StartCompletes(s) ==
    /\ BagIn(s, startTasks)
    /\ s.pc = "load"
    /\ CopiesIn(s, startTasks') < CopiesIn(s, startTasks)

\* C21: a start() that has read the store and finds monitoredTrades empty
\* (the first start, or a start after stop()) leaves in monitoredTrades
\* exactly the ids it read, each as a newly built object whose fields are
\* those of the stored record: what came before has no influence.
C21_RehydrateIdempotent ==
    [][\A s \in BagToSet(startTasks) :
          (StartCompletes(s) /\ s.ok /\ monitoredTrades = NoTrades) =>
             \A i \in Ids :
                IF i \in s.list
                THEN /\ monitoredTrades'[i] # Null
                     /\ heap'[monitoredTrades'[i]]
                           = NewMonitoredTrade(i, StoredData(db, i))
                ELSE monitoredTrades'[i] = Null]_vars

\* The engine runs again after a stop(): a monitoring step of the earlier
\* run is still waiting with the old object, and the trade is in
\* monitoredTrades as a new object with the fields of the record.
C21_Witness ==
    \E t \in BagToSet(tasks) :
       LET i == heap[t.obj].id
       IN  /\ t.stale
           /\ t.pc = "price"
           /\ isRunning
           /\ monitoredTrades[i] # Null
           /\ monitoredTrades[i] # t.obj
           /\ heap[monitoredTrades[i]]
                 = NewMonitoredTrade(i, StoredData(db, i))

C24_ManualKindRecorded ==
    [][\A t \in BagToSet(tasks) :
          (t.manual /\ t.pc = "dbExited" /\ Proceeds(t)) =>
             LET i == heap[t.obj].id
             IN  db'[i] # db[i] =>
                    db'[i].exitData.exitType \notin ExitTypes]_vars

\* C29: an id that is in monitoredTrades keeps its object: no step puts
\* another object in its place.
C29_InsertNeverReplaces ==
    [][\A i \in Ids :
          (monitoredTrades[i] # Null /\ monitoredTrades'[i] # Null) =>
             monitoredTrades'[i] = monitoredTrades[i]]_vars

\* C30: a run of syncWithDatabase that completes leaves every object of
\* monitoredTrades in place with its fields, adds only ids whose stored
\* status is active, and emits tradeAdded for exactly the ids it adds and
\* no other event.
C30_SyncOnlyAddsActiveAbsent ==
    [][(syncTask.pc = "loaded" /\ syncTask'.pc = "idle") =>
          \A i \in Ids :
             LET added == monitoredTrades[i] = Null
                             /\ monitoredTrades'[i] # Null
             IN  /\ monitoredTrades[i] # Null =>
                       /\ monitoredTrades'[i] = monitoredTrades[i]
                       /\ heap'[monitoredTrades[i]] = heap[monitoredTrades[i]]
                 /\ added => db[i].status = "active"
                 /\ emitted'[<<"tradeAdded", i>>] =
                       emitted[<<"tradeAdded", i>>] + (IF added THEN 1 ELSE 0)
                 /\ emitted'[<<"tradeExited", i>>]
                       = emitted[<<"tradeExited", i>>]
                 /\ emitted'[<<"tradeExitFailed", i>>]
                       = emitted[<<"tradeExitFailed", i>>]]_vars

(***************************************************************************)
(* Two instances (SpecPeers).                                              *)
(***************************************************************************)
\* C26: no trade has executeTrade called for it by both instances.
C26_NoDispatchByBothInstances ==
    \A i \in Ids : ~(execCalls[i] > 0 /\ peerExecCalls[i] > 0)

Starts(u) == u.pc = "exec" /\ CopiesIn(u, tasks') > CopiesIn(u, tasks)

\* C32: the exit condition of a manual exit has the price of the trade's
\* last successful price check, or the entry price when the trade has had
\* none; the request of the reversing trade carries the same price, and
\* the record of a manual exit has it as exitPrice with the profitLoss
\* computed from it.
C32_ManualExitPrice ==
    [][/\ \A u \in BagToSet(tasks') :
             (Starts(u) /\ u.manual) =>
                LET trade == heap[u.obj]
                    price == IF trade.priceCheckCount > 0
                             THEN trade.currentPrice ELSE trade.entryPrice
                IN  /\ monitoredTrades[trade.id] = u.obj
                    /\ u.cond.currentPrice = price
                    /\ u.request.currentPrice = price
       /\ \A t \in BagToSet(tasks) :
             (/\ t.manual /\ t.pc = "dbExited" /\ Proceeds(t)
              /\ db'[heap[t.obj].id] # db[heap[t.obj].id]) =>
                LET trade == heap[t.obj]
                    d     == db'[trade.id].exitData
                IN  /\ d.exitPrice = t.cond.currentPrice
                    /\ d.profitLoss =
                          (IF trade.signalMessage = "buy" THEN 1 ELSE -1)
                             * trade.entryAmount
                             * (t.cond.currentPrice - trade.entryPrice)]_vars

\* A manual exit of a buy whose last price check gave 105 has been written:
\* the record has exitPrice 105 and a gain.
C32_Witness ==
    \E t \in BagToSet(tasks) :
       LET trade == heap[t.obj]
       IN  /\ t.manual
           /\ t.pc = "dbExited"
           /\ trade.signalMessage = "buy"
           /\ trade.priceCheckCount > 0
           /\ trade.currentPrice = 105
           /\ t.cond.currentPrice = 105
           /\ t.request.currentPrice = 105

\* C37: executeTrade is called from a monitoring step only when, at the
\* price of the step and the clock, some row of the priority table is true
\* for the trade as the step updated it; a monitoring step that ends
\* without an exit calls nothing and leaves monitoredTrades and the store
\* as they are.
C37_NoSpuriousExit ==
    [][/\ \A u \in BagToSet(tasks') :
             (Starts(u) /\ ~u.manual) =>
                \E t \in BagToSet(tasks) :
                   LET trade == monitorUpdate(heap[t.obj],
                                              u.cond.currentPrice, now)
                   IN  /\ t.pc = "price"
                       /\ t.obj = u.obj
                       /\ Proceeds(t)
                       /\ heap'[u.obj] = trade
                       /\ TrueRows(PriorityTable(trade, u.cond.currentPrice,
                                                 now)) # {}
       /\ \A i \in Ids :
             execCalls'[i] > execCalls[i] =>
                \E u \in BagToSet(tasks') :
                   Starts(u) /\ heap'[u.obj].id = i
       /\ \A t \in BagToSet(tasks) :
             (t.pc = "price" /\ tasks' = tasks (-) SetToBag({t})) =>
                /\ execCalls' = execCalls
                /\ monitoredTrades' = monitoredTrades
                /\ db' = db]_vars

\* A buy got the price 105, above its stops and below tp1, before its
\* deadline: it is still monitored, its record active, nothing executed.
C37_Witness ==
    \E i \in Ids :
       /\ monitoredTrades[i] # Null
       /\ LET trade == heap[monitoredTrades[i]]
          IN  /\ trade.signalMessage = "buy"
              /\ trade.priceCheckCount = 1
              /\ trade.currentPrice = 105
              /\ trade.currentPrice * Scale > trade.trailingStopPrice
              /\ trade.currentPrice > trade.sl
              /\ trade.currentPrice < trade.tp1
              /\ trade.lastPriceCheck < trade.maxExitTime
       /\ db[i].status = "active"
       /\ execCalls[i] = 0

(***************************************************************************)
(* What start() and manualExitTrade give back.                             *)
(***************************************************************************)
\* C33: manualExitTrade for a tradeId that monitoredTrades does not hold
\* returns false and calls nothing: no executeTrade, no updateTradeStatus,
\* no event, no change of the map, the store or the tasks.
C33_ManualExitNotFound ==
    [][\A i \in Ids :
          (monitoredTrades[i] = Null /\ manualExitTrade(i)) =>
             /\ manualReturned'[i] = "false"
             /\ UNCHANGED <<execCalls, statusCalls, db, emitted, tasks,
                            monitoredTrades, heap, removedForExit>>]_vars

\* manualExitTrade has returned false for a trade that an exit had removed
\* and whose executeTrade call, the only one, is still awaited.
C33_Witness ==
    \E t \in BagToSet(tasks) :
       LET i == heap[t.obj].id
       IN  /\ t.pc = "exec"
           /\ monitoredTrades[i] = Null
           /\ i \in removedForExit
           /\ execCalls[i] = 1
           /\ statusCalls[i] = 0
           /\ manualReturned[i] = "false"

\* C34: start() on a running engine returns at once: it reads nothing from
\* the store, leaves monitoredTrades and every object as they are and
\* creates no timer.
C34_StartWhenRunningIsNoOp ==
    [][(isRunning /\ StartCall) =>
          /\ startReturned' = "running"
          /\ UNCHANGED <<startTasks, monitoredTrades, heap, tasks,
                         monitoringInterval, dbSyncInterval, liveMonitoring,
                         liveDbSync, isRunning, db>>]_vars

\* start() has returned early on an engine that holds a trade with a price
\* check behind it: one timer of each kind, the trade as it was.
C34_Witness ==
    /\ startReturned = "running"
    /\ isRunning
    /\ startTasks = EmptyBag
    /\ liveMonitoring = 1
    /\ liveDbSync = 1
    /\ \E i \in Ids :
          /\ monitoredTrades[i] # Null
          /\ heap[monitoredTrades[i]].priceCheckCount > 0

\* C39: manualExitTrade returns true only for a trade whose record it
\* leaves exited.
C39_ManualTrueOnlyWhenExited ==
    [][\A i \in Ids :
          (manualReturned'[i] # manualReturned[i]
              /\ manualReturned'[i] = "true") =>
             db'[i].status = "exited"]_vars

\* C35: a step of the initial monitorAllTrades of a start() call runs only
\* when that start() call has returned.
C35_InitialPassAfterStartReturns ==
    \A t \in BagToSet(tasks) :
       t.pass # 0 => \A s \in BagToSet(startTasks) : s.n # t.pass

\* C36: at most one monitoring timer and at most one sync timer are live,
\* and none once stop() has run.
C36_AtMostOneTimerOfEachKind ==
    /\ liveMonitoring <= 1
    /\ liveDbSync <= 1
    /\ ~isRunning /\ sinceStop => liveMonitoring = 0 /\ liveDbSync = 0

(***************************************************************************)
(* Exits in flight when stop() runs (SpecLive).                            *)
(***************************************************************************)
\* an exit of trade i that had deleted the trade from monitoredTrades when
\* stop() ran is in flight
ExitInFlightAfterStop(i) ==
    /\ sinceStop
    /\ \E t \in BagToSet(tasks) :
          t.pc # "price" /\ ~t.stale /\ heap[t.obj].id = i

\* C31: stop() leaves every exit that is past its delete as it is, and
\* such an exit goes on after stop(): once no collaborator fails any more,
\* the record of its trade gets a terminal status, exited or failed.
C31_ExitPastRemoveCompletes ==
    /\ [][(isRunning /\ ~isRunning') =>
             \A t \in BagToSet(tasks) :
                t.pc # "price" =>
                   CopiesIn(t, tasks') = CopiesIn(t, tasks)]_vars
    /\ \A i \in Ids :
          (ExitInFlightAfterStop(i) /\ ops = MaxOps)
             ~> (db[i].status \in {"exited", "failed"})

\* After stop(), executeTrade has returned for an exit that a monitoring
\* step had started before, and its updateTradeStatus is awaited.
C31_Witness ==
    /\ ~isRunning
    /\ ops = MaxOps
    /\ \E i \in Ids :
          /\ ExitInFlightAfterStop(i)
          /\ db[i].status = "active"
          /\ \E t \in BagToSet(tasks) :
                /\ heap[t.obj].id = i
                /\ t.pc = "dbExited"
                /\ ~t.manual
                /\ ~t.stale

====
